---- MODULE Spec2Model ----
(***************************************************************************)
(* State-machine model of the Thousanaire game server (socket.io).  The    *)
(* repository holds several revisions of the server; each revision that is *)
(* modelled is a specification of this module over the same room state:    *)
(*   SpecA  src/Thousanaire-Server/server.js lines 1-421                   *)
(*   SpecC  src/Thousanaire-Server/server.js lines 423-922                 *)
(*   SpecD  src/unnamed/part_001 lines 1-441                               *)
(* One room is modelled: rooms are independent entries of the rooms map.   *)
(***************************************************************************)
EXTENDS Integers, Sequences, FiniteSets, TLC

\* ---------------------------------------------------------------- bounds
\* Number of socket connections that ever reach the server.
NumConns == 2
\* Number of seats the clients of the model fill at the same time.
MaxSeated == 2
\* Longest actions array a client sends with resolveWilds.
MaxActions == 1
\* The gameOver counter stops counting here.
MaxGameOvers == 2
\* Revisions C and D create chips (Dot gain): a roll is drawn in the model
\* only while no more than this many chips are in the room.
MaxChips == 6
MaxReplyActions == 2
\* Most players seated at once in the room of the part_002 lobby model.
MaxSeatedB == 3

\* ------------------------------------------------------- program constants
NumSeats == 4
StartChips == 3
MaxDice == 3
StealCount == 3
DotCap == 3

Seats == 0..(NumSeats - 1)
Conns == 1..NumConns
RoomId == "ROOM"
Null == [null |-> TRUE]
Faces == {"Left", "Right", "Hub", "Dottt", "Wild"}

VARIABLES
    conn,           \* conn[c]: "new" (not yet connected), "open", "closed"
    rooms,          \* keys of the rooms map: {} or {RoomId}
    players,        \* room.players: seat -> Null or player record
    centerPot,      \* room.centerPot
    currentPlayer,  \* room.currentPlayer
    gameStarted,    \* room.gameStarted
    gameState,      \* room.gameState (revisions C, D)
    seatedCount,    \* room.seatedCount (revisions C, D)
    pendingRoll,    \* wild-choice request sent to the roller and not yet answered
                    \* (kept for server.js 1-421, which sends it to one socket)
    gameOvers,      \* gameOver events emitted since room creation / last resetGame
    everFull,       \* all four seats of the room have been occupied at once
    graceRoundPlayers, \* seats s whose key roomId-s is in graceRoundPlayers
                    \* (part_002)
    zeroTurns,      \* seats whose player's latest turn started with 0 chips and
                    \* who has held no chip since
    ledger          \* chips handed to the seated players: 3 per joinSeat and per
                    \* player at resetGame, plus the counts of the chipsGained
                    \* events, minus the chips of the players removed

roomVars == <<players, centerPot, currentPlayer, gameStarted>>
ghostVars == <<pendingRoll, gameOvers, everFull, zeroTurns, graceRoundPlayers, ledger>>
vars == <<conn, rooms, players, centerPot, currentPlayer, gameStarted,
          gameState, seatedCount, pendingRoll, gameOvers, everFull, zeroTurns, graceRoundPlayers,
          ledger>>

\* -------------------------------------------------------------- helpers
Min(S) == CHOOSE x \in S : \A y \in S : x <= y

\* JavaScript's remainder keeps the sign of the dividend.
JsMod(a, n) == IF a >= 0 THEN a % n ELSE -((-a) % n)

EmptySeats == [s \in Seats |-> Null]

NewPlayer(c) ==
    [socketId |-> c, chips |-> StartChips, eliminated |-> FALSE, danger |-> FALSE]

Occupied(ps, s) == s \in Seats /\ ps[s] # Null

\* Object.entries(room.players).find(([s, p]) => p && p.socketId === socket.id)
SeatOf(ps, c) ==
    LET mine == {s \in Seats : ps[s] # Null /\ ps[s].socketId = c}
    IN  IF mine = {} THEN -1 ELSE Min(mine)

\* room.players[s] && !room.players[s].eliminated
Probe(ps, s) == Occupied(ps, s) /\ ~ps[s].eliminated

\* getNextSeat without the test of the eliminated flag.
GetNextSeatAnyOccupied(ps, seat) ==
    LET hits == {i \in 1..4 : Occupied(ps, JsMod(seat + i, 4))}
    IN  IF hits = {} THEN seat ELSE JsMod(seat + Min(hits), 4)

GetNextSeat(ps, seat) ==
    LET hits == {i \in 1..4 : Probe(ps, JsMod(seat + i, 4))}
    IN  IF hits = {} THEN seat ELSE JsMod(seat + Min(hits), 4)

\* Number of loop iterations getNextSeat runs before it returns.
NextSeatProbes(ps, seat) ==
    LET hits == {i \in 1..4 : Probe(ps, JsMod(seat + i, 4))}
    IN  IF hits = {} THEN 4 ELSE Min(hits)

CountPlayersWithChips(ps) ==
    Cardinality({s \in Seats : ps[s] # Null /\ ps[s].chips > 0})

WildCount(outcomes) ==
    Cardinality({i \in 1..Len(outcomes) : outcomes[i] = "Wild"})

\* Hub faces of a roll; the wild-choice request carries the whole roll
\* (server.js 208, 218) and the ghost keeps the two counts the claims read.
HubCount(outcomes) ==
    Cardinality({i \in 1..Len(outcomes) : outcomes[i] = "Hub"})

Rolls(n) == [1..n -> Faces]

\* Math.min(player.chips, 3)
NumDice(chips) == IF chips < MaxDice THEN chips ELSE MaxDice

TotalChips(ps) ==
    LET RECURSIVE Sum(_)
        Sum(S) == IF S = {} THEN 0
                  ELSE LET s == Min(S)
                       IN  (IF ps[s] = Null THEN 0 ELSE ps[s].chips) + Sum(S \ {s})
    IN  Sum(Seats)

SeatedSeats(ps) == {s \in Seats : ps[s] # Null}

BumpGameOvers(n) == IF n < MaxGameOvers THEN n + 1 ELSE n

\* ------------------------------------------------------------ game logic
\* A room value threaded through the game-logic functions.
\* gameOver: a gameOver event was emitted; crashed: the handler threw.
Room(ps, pot, cur) ==
    [players |-> ps, centerPot |-> pot, currentPlayer |-> cur,
     gameOver |-> FALSE, crashed |-> FALSE]

\* finalizeTurn that also clears the eliminated flag of a player holding chips.
FinalizeTurnForgives(r, seat) ==
    LET ps0 == r.players
        p   == ps0[seat]
        ps1 == IF p.chips = 0
               THEN IF p.danger
                    THEN [ps0 EXCEPT ![seat].eliminated = TRUE]
                    ELSE [ps0 EXCEPT ![seat].danger = TRUE]
               ELSE [ps0 EXCEPT ![seat].danger = FALSE,
                                ![seat].eliminated = FALSE]
    IN  IF CountPlayersWithChips(ps1) = 1
        THEN [r EXCEPT !.players = ps1, !.gameOver = TRUE]
        ELSE [r EXCEPT !.players = ps1,
                       !.currentPlayer = GetNextSeat(ps1, seat)]

FinalizeTurn(r, seat) ==
    LET ps0 == r.players
        p   == ps0[seat]
        ps1 == IF p.chips = 0
               THEN IF p.danger
                    THEN [ps0 EXCEPT ![seat].eliminated = TRUE]
                    ELSE [ps0 EXCEPT ![seat].danger = TRUE]
               ELSE [ps0 EXCEPT ![seat].danger = FALSE]
    IN  IF CountPlayersWithChips(ps1) = 1
        THEN [r EXCEPT !.players = ps1, !.gameOver = TRUE]
        ELSE [r EXCEPT !.players = ps1,
                       !.currentPlayer = GetNextSeat(ps1, seat)]

ApplyOutcome(r, seat, o) ==
    LET ps == r.players
    IN  IF o = "Left" /\ ps[seat].chips > 0
        THEN LET leftSeat == GetNextSeat(ps, seat)
                 ps1 == [ps EXCEPT ![seat].chips = @ - 1]
             IN  [r EXCEPT !.players = [ps1 EXCEPT ![leftSeat].chips = @ + 1]]
        ELSE IF o = "Right" /\ ps[seat].chips > 0
        THEN LET rightSeat == GetNextSeat(ps, seat - 2)
                 ps1 == [ps EXCEPT ![seat].chips = @ - 1]
             IN  [r EXCEPT !.players = [ps1 EXCEPT ![rightSeat].chips = @ + 1]]
        ELSE IF o = "Hub" /\ ps[seat].chips > 0
        THEN [r EXCEPT !.players = [ps EXCEPT ![seat].chips = @ - 1],
                       !.centerPot = @ + 1]
        ELSE r

RECURSIVE ApplyEach(_, _, _, _)
ApplyEach(r, seat, outcomes, i) ==
    IF i > Len(outcomes) THEN r
    ELSE ApplyEach(ApplyOutcome(r, seat, outcomes[i]), seat, outcomes, i + 1)

ApplyOutcomes(r, seat, outcomes) ==
    FinalizeTurn(ApplyEach(r, seat, outcomes, 1), seat)

\* applyWildActions' steal without the test target.chips > 0.
ApplyStealUnguarded(ps, seat, from) ==
    IF Occupied(ps, from)
    THEN LET ps1 == [ps EXCEPT ![from].chips = @ - 1]
         IN  [ps1 EXCEPT ![seat].chips = @ + 1]
    ELSE ps

ApplySteal(ps, seat, from) ==
    IF Occupied(ps, from) /\ ps[from].chips > 0
    THEN LET ps1 == [ps EXCEPT ![from].chips = @ - 1]
         IN  [ps1 EXCEPT ![seat].chips = @ + 1]
    ELSE ps

RECURSIVE StealEach(_, _, _, _)
StealEach(ps, seat, actions, i) ==
    IF i > Len(actions) THEN ps
    ELSE StealEach(IF actions[i].type = "steal"
                   THEN ApplySteal(ps, seat, actions[i].from)
                   ELSE ps,
                   seat, actions, i + 1)

ApplyWildActions(r, seat, actions) ==
    FinalizeTurn([r EXCEPT !.players = StealEach(r.players, seat, actions, 1)], seat)

\* One pass of the steal3 loop: st = [players, steals], seat i is visited.
Steal3Visit(st, seat, i) ==
    LET ps == st.players
    IN  IF i # seat /\ ps[i] # Null /\ ps[i].chips > 0 /\ st.steals > 0
        THEN LET amount == IF ps[i].chips < st.steals THEN ps[i].chips ELSE st.steals
                 ps1 == [ps EXCEPT ![i].chips = @ - amount]
             IN  [players |-> [ps1 EXCEPT ![seat].chips = @ + amount],
                  steals  |-> st.steals - amount]
        ELSE st

RECURSIVE Steal3Loop(_, _, _)
Steal3Loop(st, seat, i) ==
    IF i >= NumSeats THEN st
    ELSE Steal3Loop(Steal3Visit(st, seat, i), seat, i + 1)

ApplyTripleWild(r, seat, choice) ==
    LET r1 == IF choice = "takePot"
              THEN [r EXCEPT !.players[seat].chips = @ + r.centerPot,
                             !.centerPot = 0]
              ELSE r
        r2 == IF choice = "steal3"
              THEN [r1 EXCEPT !.players =
                       Steal3Loop([players |-> r1.players, steals |-> StealCount],
                                  seat, 0).players]
              ELSE r1
    IN  FinalizeTurn(r2, seat)

\* ------------------------------------------------------- client payloads
WildActions ==
    {[type |-> "cancel", from |-> -1]} \cup {[type |-> "steal", from |-> s] : s \in Seats}

ActionLists == UNION {[1..n -> WildActions] : n \in 0..MaxActions}

Choices == {"takePot", "steal3"}

\* No wild-choice request is outstanding.
None == [seat |-> -1, wilds |-> 0, hubs |-> 0]

ThisRoom == Room(players, centerPot, currentPlayer)

Commit(r) ==
    /\ players' = r.players
    /\ centerPot' = r.centerPot
    /\ currentPlayer' = r.currentPlayer
    /\ gameOvers' = IF r.gameOver THEN BumpGameOvers(gameOvers) ELSE gameOvers

\* The seats of S whose player still holds no chip.
Zeroed(S, ps) == {s \in S : ps[s] # Null /\ ps[s].chips = 0}

\* ------------------------------------------- handlers, server.js 1-421
Connect(c) ==
    /\ conn[c] = "new"
    /\ \A d \in Conns : d < c => conn[d] # "new"
    /\ conn' = [conn EXCEPT ![c] = "open"]
    /\ UNCHANGED <<rooms, roomVars, gameState, seatedCount, ghostVars>>

CreateRoom(c) ==
    /\ conn[c] = "open"
    /\ rooms = {}
    /\ rooms' = {RoomId}
    /\ players' = EmptySeats
    /\ centerPot' = 0
    /\ currentPlayer' = 0
    /\ gameStarted' = FALSE
    /\ pendingRoll' = None
    /\ gameOvers' = 0
    /\ everFull' = FALSE
    /\ ledger' = 0
    /\ zeroTurns' = {}
    /\ UNCHANGED graceRoundPlayers
    /\ UNCHANGED <<conn, gameState, seatedCount>>

JoinSeat(c) ==
    /\ conn[c] = "open"
    /\ rooms # {}
    /\ Cardinality(SeatedSeats(players)) < MaxSeated
    /\ LET open == Seats \ SeatedSeats(players)
       IN  /\ open # {}
           /\ players' = [players EXCEPT ![Min(open)] = NewPlayer(c)]
           /\ everFull' = (everFull \/ SeatedSeats(players') = Seats)
           /\ zeroTurns' = zeroTurns \ {Min(open)}
           /\ UNCHANGED graceRoundPlayers
    /\ ledger' = ledger + StartChips
    /\ UNCHANGED <<conn, rooms, centerPot, currentPlayer, gameStarted,
                   gameState, seatedCount, pendingRoll, gameOvers>>

\* rollDice with the dice showing outcomes.
RollDiceWith(c, outcomes) ==
    /\ conn[c] = "open"
    /\ rooms # {}
    /\ LET playerSeat == SeatOf(players, c)
       IN  /\ playerSeat # -1
           /\ playerSeat = currentPlayer
           /\ ~players[playerSeat].eliminated
           /\ IF players[playerSeat].chips = 0
              THEN /\ outcomes = <<>>
                   /\ players' = [players EXCEPT ![playerSeat].danger = TRUE]
                   /\ currentPlayer' = GetNextSeat(players', playerSeat)
                   /\ zeroTurns' = zeroTurns \cup {playerSeat}
                   /\ UNCHANGED graceRoundPlayers
                   /\ UNCHANGED <<centerPot, gameStarted, pendingRoll, gameOvers>>
              ELSE /\ Len(outcomes) = NumDice(players[playerSeat].chips)
                   /\ gameStarted' = TRUE
                   /\ IF WildCount(outcomes) > 0
                      THEN /\ pendingRoll' = [seat |-> playerSeat,
                                              wilds |-> WildCount(outcomes),
                                              hubs |-> HubCount(outcomes)]
                           /\ UNCHANGED <<players, centerPot, currentPlayer, gameOvers>>
                      ELSE /\ Commit(ApplyOutcomes(ThisRoom, playerSeat, outcomes))
                           /\ UNCHANGED pendingRoll
                   /\ zeroTurns' = Zeroed(zeroTurns \ {playerSeat}, players')
                   /\ UNCHANGED graceRoundPlayers
    /\ UNCHANGED <<conn, rooms, gameState, seatedCount, everFull, ledger>>

RollDice(c) ==
    /\ conn[c] = "open"
    /\ rooms # {}
    /\ SeatOf(players, c) = currentPlayer
    /\ \E outcomes \in Rolls(NumDice(players[currentPlayer].chips)) :
           RollDiceWith(c, outcomes)

\* The request sent to playerSeat is answered by a reply from that seat.
Answered(playerSeat) == IF pendingRoll.seat = playerSeat THEN None ELSE pendingRoll

ResolveWilds(c, actions) ==
    /\ conn[c] = "open"
    /\ rooms # {}
    /\ LET playerSeat == SeatOf(players, c)
       IN  /\ playerSeat # -1
           /\ Commit(ApplyWildActions(ThisRoom, playerSeat, actions))
           /\ pendingRoll' = Answered(playerSeat)
           /\ zeroTurns' = Zeroed(zeroTurns, players')
           /\ UNCHANGED graceRoundPlayers
    /\ UNCHANGED <<conn, rooms, gameStarted, gameState, seatedCount, everFull,
                   ledger>>

TripleWildChoice(c, choice) ==
    /\ conn[c] = "open"
    /\ rooms # {}
    /\ LET playerSeat == SeatOf(players, c)
       IN  /\ playerSeat # -1
           /\ Commit(ApplyTripleWild(ThisRoom, playerSeat, choice))
           /\ pendingRoll' = Answered(playerSeat)
           /\ zeroTurns' = Zeroed(zeroTurns, players')
           /\ UNCHANGED graceRoundPlayers
    /\ UNCHANGED <<conn, rooms, gameStarted, gameState, seatedCount, everFull,
                   ledger>>

ResetPlayer(p) ==
    IF p = Null THEN Null
    ELSE [p EXCEPT !.chips = StartChips, !.eliminated = FALSE, !.danger = FALSE]

ResetGame(c) ==
    /\ conn[c] = "open"
    /\ rooms # {}
    /\ players' = [s \in Seats |-> ResetPlayer(players[s])]
    /\ centerPot' = 0
    /\ currentPlayer' = 0
    /\ gameStarted' = FALSE
    /\ gameOvers' = 0
    /\ ledger' = StartChips * Cardinality(SeatedSeats(players))
    /\ zeroTurns' = {}
    /\ UNCHANGED graceRoundPlayers
    /\ UNCHANGED <<conn, rooms, gameState, seatedCount, pendingRoll, everFull>>

Disconnect(c) ==
    /\ conn[c] = "open"
    /\ conn' = [conn EXCEPT ![c] = "closed"]
    /\ IF rooms = {}
       THEN UNCHANGED <<rooms, roomVars, ghostVars>>
       ELSE LET ps == [s \in Seats |->
                          IF players[s] # Null /\ players[s].socketId = c
                          THEN Null ELSE players[s]]
            IN  IF SeatedSeats(ps) = {}
                THEN /\ rooms' = {}
                     /\ players' = EmptySeats
                     /\ centerPot' = 0
                     /\ currentPlayer' = 0
                     /\ gameStarted' = FALSE
                     /\ pendingRoll' = None
                     /\ gameOvers' = 0
                     /\ everFull' = FALSE
                     /\ zeroTurns' = {}
                     /\ UNCHANGED graceRoundPlayers
                     /\ ledger' = 0
                ELSE /\ players' = ps
                     /\ zeroTurns' = zeroTurns \cap SeatedSeats(ps)
                     /\ UNCHANGED graceRoundPlayers
                     /\ ledger' = ledger - (TotalChips(players) - TotalChips(ps))
                     /\ pendingRoll' = IF pendingRoll.seat # -1 /\ ps[pendingRoll.seat] = Null
                                       THEN None ELSE pendingRoll
                     /\ UNCHANGED <<rooms, centerPot, currentPlayer, gameStarted,
                                    gameOvers, everFull>>
    /\ UNCHANGED <<gameState, seatedCount>>

\* ------------------- game logic, server.js 423-922 and part_001 1-441
NewPlayer2(c) == [socketId |-> c, chips |-> StartChips, eliminated |-> FALSE]

GetNextSeat2(ps, seat) ==
    LET hits == {i \in 1..4 : Probe(ps, (seat + i + 4) % 4)}
    IN  IF hits = {} THEN seat ELSE (seat + Min(hits) + 4) % 4

FinalizeTurn2(r, seat) ==
    LET ps0 == r.players
    IN  IF ps0[seat] = Null THEN r
        ELSE LET ps1 == IF ps0[seat].chips <= 0 /\ ~ps0[seat].eliminated
                        THEN [ps0 EXCEPT ![seat].eliminated = TRUE]
                        ELSE ps0
             IN  IF CountPlayersWithChips(ps1) <= 1
                 THEN [r EXCEPT !.players = ps1, !.gameOver = TRUE]
                 ELSE [r EXCEPT !.players = ps1,
                                !.currentPlayer = GetNextSeat2(ps1, seat)]

\* A variant of ApplyOutcome2 for C1: the chip a Hub face takes from the
\* roller never reaches the pot, and Left and Right move nothing.
HubChipLost(r, seat, o) ==
    IF ~r.crashed /\ o = "Hub" /\ r.players[seat].chips > 0
    THEN [r EXCEPT !.players[seat].chips = @ - 1]
    ELSE r

\* room.players[rightSeat].chips++ throws when rightSeat holds no player.
ApplyOutcome2(r, seat, o) ==
    LET ps == r.players
    IN  IF r.crashed \/ o = "Wild" THEN r
        ELSE IF o = "Left" /\ ps[seat].chips > 0
        THEN LET leftSeat == GetNextSeat2(ps, seat)
                 ps1 == [ps EXCEPT ![seat].chips = @ - 1]
             IN  [r EXCEPT !.players = [ps1 EXCEPT ![leftSeat].chips = @ + 1]]
        ELSE IF o = "Right" /\ ps[seat].chips > 0
        THEN LET rightSeat == GetNextSeat2(ps, seat + 2)
                 ps1 == [ps EXCEPT ![seat].chips = @ - 1]
             IN  IF Occupied(ps1, rightSeat)
                 THEN [r EXCEPT !.players = [ps1 EXCEPT ![rightSeat].chips = @ + 1]]
                 ELSE [r EXCEPT !.players = ps1, !.crashed = TRUE]
        ELSE IF o = "Hub" /\ ps[seat].chips > 0
        THEN [r EXCEPT !.players = [ps EXCEPT ![seat].chips = @ - 1],
                       !.centerPot = @ + 1]
        ELSE r

RECURSIVE ApplyEach2(_, _, _, _)
ApplyEach2(r, seat, outcomes, i) ==
    IF i > Len(outcomes) THEN r
    ELSE ApplyEach2(ApplyOutcome2(r, seat, outcomes[i]), seat, outcomes, i + 1)

\* Called with an array: the branch that reads the array as dice outcomes.
ApplyWildActions2(r, seat, outcomes) ==
    IF r.players[seat] = Null THEN r
    ELSE LET r1 == ApplyEach2(r, seat, outcomes, 1)
         IN  IF r1.crashed THEN r1 ELSE FinalizeTurn2(r1, seat)

\* One pass of the steal3 loop: st = [players, remaining], seat i is visited.
Steal3Visit2(st, seat, i) ==
    LET ps == st.players
    IN  IF st.remaining > 0 /\ i # seat /\ ps[i] # Null /\ ps[i].chips > 0
        THEN LET ps1 == [ps EXCEPT ![i].chips = @ - 1]
             IN  [players   |-> [ps1 EXCEPT ![seat].chips = @ + 1],
                  remaining |-> st.remaining - 1]
        ELSE st

RECURSIVE Steal3Loop2(_, _, _)
Steal3Loop2(st, seat, i) ==
    IF i >= NumSeats THEN st
    ELSE Steal3Loop2(Steal3Visit2(st, seat, i), seat, i + 1)

ApplyTripleWild2(r, seat, choice) ==
    LET r1 == IF choice = "takePot"
              THEN [r EXCEPT !.players[seat].chips = @ + r.centerPot,
                             !.centerPot = 0]
              ELSE IF choice = "steal3"
              THEN [r EXCEPT !.players =
                       Steal3Loop2([players |-> r.players, remaining |-> StealCount],
                                   seat, 0).players]
              ELSE r
    IN  FinalizeTurn2(r1, seat)

\* Math.min(dots, 3 - player.chips), applied when dots > 0 and chips > 0.
DotGain(chips, dots) ==
    IF dots > 0 /\ chips > 0
    THEN (IF dots < DotCap - chips THEN dots ELSE DotCap - chips)
    ELSE 0

CountFace(outcomes, f) == Cardinality({i \in 1..Len(outcomes) : outcomes[i] = f})

\* A string element of the actions array.
Strings2 == {[str |-> f] : f \in {"Left", "Right", "Hub"}}

Payloads2 == UNION {[1..n -> WildActions \cup Strings2] : n \in 0..MaxActions}

\* What the outcome comparisons (o === "Left" ...) see in an array element.
AsOutcome(item) == IF "str" \in DOMAIN item THEN item.str ELSE "object"

\* An exception that leaves a socket handler is uncaught: the process ends
\* and with it every connection and every room.
Crash ==
    /\ conn' = [c \in Conns |-> "closed"]
    /\ rooms' = {}
    /\ players' = EmptySeats
    /\ centerPot' = 0
    /\ currentPlayer' = 0
    /\ gameState' = "waiting"
    /\ seatedCount' = 0
    /\ pendingRoll' = None
    /\ gameOvers' = 0
    /\ everFull' = FALSE
    /\ zeroTurns' = {}
    /\ graceRoundPlayers' = {}

\* Every caller also sets ledger.
Commit2(r) ==
    IF r.crashed THEN Crash
    ELSE /\ Commit(r)
         /\ UNCHANGED <<conn, rooms, gameState, seatedCount, pendingRoll, everFull,
                        zeroTurns, graceRoundPlayers>>

\* ------------------ handlers, server.js 423-922 and part_001 1-441
CreateRoom2(c) ==
    /\ conn[c] = "open"
    /\ rooms = {}
    /\ rooms' = {RoomId}
    /\ players' = EmptySeats
    /\ seatedCount' = 0
    /\ currentPlayer' = 0
    /\ centerPot' = 0
    /\ gameState' = "waiting"
    /\ pendingRoll' = None
    /\ gameOvers' = 0
    /\ everFull' = FALSE
    /\ ledger' = 0
    /\ zeroTurns' = {}
    /\ UNCHANGED graceRoundPlayers
    /\ UNCHANGED <<conn, gameStarted>>

\* joinSeat that starts the game at the fourth seat but leaves the turn where
\* it was.
JoinSeatKeepsTurn(c) ==
    /\ conn[c] = "open"
    /\ rooms # {}
    /\ LET open == Seats \ SeatedSeats(players)
       IN  /\ open # {}
           /\ players' = [players EXCEPT ![Min(open)] = NewPlayer2(c)]
           /\ seatedCount' = seatedCount + 1
           /\ everFull' = (everFull \/ SeatedSeats(players') = Seats)
           /\ IF seatedCount' = NumSeats
              THEN gameState' = "playing" /\ UNCHANGED currentPlayer
              ELSE UNCHANGED <<gameState, currentPlayer>>
    /\ ledger' = ledger + StartChips
    /\ UNCHANGED <<conn, rooms, centerPot, gameStarted, pendingRoll, gameOvers,
                   zeroTurns, graceRoundPlayers>>

\* The joinSeat handler, any number of seats taken.
JoinAnySeat2(c) ==
    /\ conn[c] = "open"
    /\ rooms # {}
    /\ LET open == Seats \ SeatedSeats(players)
       IN  /\ open # {}
           /\ players' = [players EXCEPT ![Min(open)] = NewPlayer2(c)]
           /\ seatedCount' = seatedCount + 1
           /\ everFull' = (everFull \/ SeatedSeats(players') = Seats)
           /\ IF seatedCount' = NumSeats
              THEN gameState' = "playing" /\ currentPlayer' = 0
              ELSE UNCHANGED <<gameState, currentPlayer>>
    /\ ledger' = ledger + StartChips
    /\ UNCHANGED <<conn, rooms, centerPot, gameStarted, pendingRoll, gameOvers,
                   zeroTurns, graceRoundPlayers>>

\* joinSeat while fewer than MaxSeated seats are taken.
JoinSeat2(c) ==
    /\ Cardinality(SeatedSeats(players)) < MaxSeated
    /\ JoinAnySeat2(c)

\* The effect of rollDice once the dice show rollResults; dotFace is the
\* string the revision compares the results with to count dots.
Roll2With(dotFace, rollResults) ==
    LET seat == currentPlayer
        gain == DotGain(players[seat].chips, CountFace(rollResults, dotFace))
        r0   == Room([players EXCEPT ![seat].chips = @ + gain],
                     centerPot, currentPlayer)
        r1   == IF WildCount(rollResults) > 0 THEN r0
                ELSE ApplyWildActions2(r0, seat, rollResults)
    IN  /\ Commit2(r1)
        /\ ledger' = IF r1.crashed THEN 0 ELSE ledger + gain

RollDice2(c, dotFace) ==
    /\ conn[c] = "open"
    /\ rooms # {}
    /\ players[currentPlayer] # Null
    /\ ~players[currentPlayer].eliminated
    /\ TotalChips(players) + centerPot <= MaxChips
    /\ \E rollResults \in Rolls(MaxDice) : Roll2With(dotFace, rollResults)
    /\ UNCHANGED gameStarted

RollDiceC(c) == RollDice2(c, "Dot")

RollDiceD(c) == RollDice2(c, "Dottt")

ResolveWilds2(c, actions) ==
    /\ conn[c] = "open"
    /\ rooms # {}
    /\ LET r == ApplyWildActions2(ThisRoom, currentPlayer,
                                  [i \in 1..Len(actions) |-> AsOutcome(actions[i])])
       IN  /\ Commit2(r)
           /\ ledger' = IF r.crashed THEN 0 ELSE ledger
    /\ UNCHANGED gameStarted

TripleWildChoice2(c, choice) ==
    /\ conn[c] = "open"
    /\ rooms # {}
    /\ players[currentPlayer] # Null
    /\ Commit2(ApplyTripleWild2(ThisRoom, currentPlayer, choice))
    /\ UNCHANGED <<gameStarted, ledger>>

ResetPlayer2(p) ==
    IF p = Null THEN Null
    ELSE [p EXCEPT !.chips = StartChips, !.eliminated = FALSE]

ResetGame2(c) ==
    /\ conn[c] = "open"
    /\ rooms # {}
    /\ players' = [s \in Seats |-> ResetPlayer2(players[s])]
    /\ currentPlayer' = 0
    /\ centerPot' = 0
    /\ gameState' = "playing"
    /\ gameOvers' = 0
    /\ ledger' = StartChips * Cardinality(SeatedSeats(players))
    /\ UNCHANGED <<conn, rooms, gameStarted, seatedCount, pendingRoll, everFull,
                   zeroTurns, graceRoundPlayers>>

Disconnect2(c) ==
    /\ conn[c] = "open"
    /\ conn' = [conn EXCEPT ![c] = "closed"]
    /\ LET seat == SeatOf(players, c)
       IN  IF rooms = {} \/ seat = -1
           THEN UNCHANGED <<players, seatedCount, ledger>>
           ELSE /\ players' = [players EXCEPT ![seat] = Null]
                /\ ledger' = ledger - players[seat].chips
                /\ seatedCount' = IF seatedCount - 1 > 0 THEN seatedCount - 1 ELSE 0
    /\ UNCHANGED <<rooms, centerPot, currentPlayer, gameStarted, gameState,
                   pendingRoll, gameOvers, everFull, zeroTurns, graceRoundPlayers>>

Init ==
    /\ conn = [c \in Conns |-> "new"]
    /\ rooms = {}
    /\ players = EmptySeats
    /\ centerPot = 0
    /\ currentPlayer = 0
    /\ gameStarted = FALSE
    /\ gameState = "waiting"
    /\ seatedCount = 0
    /\ pendingRoll = None
    /\ gameOvers = 0
    /\ everFull = FALSE
    /\ zeroTurns = {}
    /\ graceRoundPlayers = {}
    /\ ledger = 0

NextA ==
    \/ \E c \in Conns : Connect(c)
    \/ \E c \in Conns : CreateRoom(c)
    \/ \E c \in Conns : JoinSeat(c)
    \/ \E c \in Conns : RollDice(c)
    \/ \E c \in Conns, actions \in ActionLists : ResolveWilds(c, actions)
    \/ \E c \in Conns, choice \in Choices : TripleWildChoice(c, choice)
    \/ \E c \in Conns : ResetGame(c)
    \/ \E c \in Conns : Disconnect(c)

SpecA == Init /\ [][NextA]_vars

NextC ==
    \/ \E c \in Conns : Connect(c)
    \/ \E c \in Conns : CreateRoom2(c)
    \/ \E c \in Conns : JoinSeat2(c)
    \/ \E c \in Conns : RollDiceC(c)
    \/ \E c \in Conns, actions \in Payloads2 : ResolveWilds2(c, actions)
    \/ \E c \in Conns, choice \in Choices : TripleWildChoice2(c, choice)
    \/ \E c \in Conns : ResetGame2(c)
    \/ \E c \in Conns : Disconnect2(c)

SpecC == Init /\ [][NextC]_vars

NextD ==
    \/ \E c \in Conns : Connect(c)
    \/ \E c \in Conns : CreateRoom2(c)
    \/ \E c \in Conns : JoinSeat2(c)
    \/ \E c \in Conns : RollDiceD(c)
    \/ \E c \in Conns, actions \in Payloads2 : ResolveWilds2(c, actions)
    \/ \E c \in Conns, choice \in Choices : TripleWildChoice2(c, choice)
    \/ \E c \in Conns : ResetGame2(c)
    \/ \E c \in Conns : Disconnect2(c)

SpecD == Init /\ [][NextD]_vars

\* ------------------------------------- filling the room, server.js 423-922
\* All four seats can be taken; the wild replies carry no action, so that the
\* turn moves on while the room fills and no chip moves.
NextL ==
    \/ \E c \in Conns : Connect(c)
    \/ \E c \in Conns : CreateRoom2(c)
    \/ \E c \in Conns : JoinAnySeat2(c)
    \/ \E c \in Conns : ResolveWilds2(c, <<>>)
    \/ \E c \in Conns : Disconnect2(c)

SpecL == Init /\ [][NextL]_vars

\* ------------------------------------- seats and sockets, part_002 1-555
\* player.socketId after the disconnect of a player seated for more than 30 s.
NoSocket == 0

\* aged: Date.now() - player.seatedTime > 30000.
NewPlayerB(c) ==
    [socketId |-> c, chips |-> StartChips, eliminated |-> FALSE,
     danger |-> FALSE, aged |-> FALSE]

\* A seat whose player is kept while its socket is gone.
Detached(ps, s) == ps[s] # Null /\ ps[s].socketId = NoSocket

CreateRoomB(c) ==
    /\ conn[c] = "open"
    /\ rooms = {}
    /\ rooms' = {RoomId}
    /\ players' = EmptySeats
    /\ centerPot' = 0
    /\ currentPlayer' = 0
    /\ gameStarted' = FALSE
    /\ UNCHANGED <<conn, gameState, seatedCount, ghostVars>>

\* The seat joinSeat picks: 0 for the first player, else the first empty of
\* seats 1..3; -1 when there is none.
PickSeatB(ps) ==
    IF SeatedSeats(ps) = {} THEN 0
    ELSE LET open == (Seats \ {0}) \ SeatedSeats(ps)
         IN  IF open = {} THEN -1 ELSE Min(open)

JoinSeatB(c) ==
    /\ conn[c] = "open"
    /\ rooms # {}
    /\ SeatOf(players, c) = -1
    /\ Cardinality(SeatedSeats(players)) < MaxSeatedB
    /\ TotalChips(players) + StartChips <= MaxChips
    /\ PickSeatB(players) # -1
    /\ players' = [players EXCEPT ![PickSeatB(players)] = NewPlayerB(c)]
    /\ gameStarted' = IF SeatedSeats(players') = Seats THEN TRUE ELSE gameStarted
    /\ everFull' = (everFull \/ SeatedSeats(players') = Seats)
    /\ ledger' = ledger + StartChips
    /\ UNCHANGED <<conn, rooms, centerPot, currentPlayer, gameState, seatedCount,
                   pendingRoll, gameOvers, zeroTurns, graceRoundPlayers>>

\* The while loop of finalizeTurn, entered at seat cur with n passes left: it
\* walks on while the seat's player is eliminated or holds no chip, and it
\* never ends (-1) when NumSeats passes have found no seat to stop at.
RECURSIVE WalkB(_, _, _)
WalkB(ps, cur, n) ==
    IF Occupied(ps, cur) /\ (ps[cur].eliminated \/ ps[cur].chips = 0)
    THEN IF n = 0 THEN -1 ELSE WalkB(ps, GetNextSeat2(ps, cur), n - 1)
    ELSE cur

LastPlayerWithChipsB(ps) == Min({s \in Seats : ps[s] # Null /\ ps[s].chips > 0})

\* finalizeTurn's graceRoundPlayers.delete for a player holding chips.
Recovered(grace, ps, seat) == IF ps[seat].chips > 0 THEN grace \ {seat} ELSE grace

FinalizeTurnB(r, seat) ==
    LET ps0 == r.players
        n   == CountPlayersWithChips(ps0)
        ps1 == IF ps0[seat].chips > 0
               THEN [ps0 EXCEPT ![seat].danger = FALSE] ELSE ps0
    IN  IF n = 1
        THEN [r EXCEPT !.players = [ps1 EXCEPT ![LastPlayerWithChipsB(ps1)].chips
                                                  = @ + r.centerPot],
                       !.centerPot = 0,
                       !.gameOver = TRUE]
        ELSE LET next == WalkB(ps1, GetNextSeat2(ps1, seat), NumSeats)
             IN  IF next = -1
                 THEN [r EXCEPT !.players = ps1, !.crashed = TRUE]
                 ELSE [r EXCEPT !.players = ps1, !.currentPlayer = next]

ApplyWildActionsB(r, seat, actions) ==
    FinalizeTurnB([r EXCEPT !.players = StealEach(r.players, seat, actions, 1)],
                  seat)

\* A handler that never returns: no socket is served any more.
Hang == conn' = [c \in Conns |-> "closed"]

ResolveWildsB(c, actions) ==
    /\ conn[c] = "open"
    /\ rooms # {}
    /\ SeatOf(players, c) # -1
    /\ LET seat == SeatOf(players, c)
           r == ApplyWildActionsB(ThisRoom, seat, actions)
       IN  /\ Commit(r)
           /\ graceRoundPlayers' = Recovered(graceRoundPlayers, r.players, seat)
           /\ IF r.crashed THEN Hang ELSE UNCHANGED conn
    /\ UNCHANGED <<rooms, gameStarted, gameState, seatedCount, pendingRoll,
                   everFull, zeroTurns, ledger>>

\* More than 30 s pass on the server's clock.
TimePasses ==
    /\ \E s \in Seats : players[s] # Null /\ ~players[s].aged
    /\ players' = [s \in Seats |->
                      IF players[s] = Null THEN Null
                      ELSE [players[s] EXCEPT !.aged = TRUE]]
    /\ UNCHANGED <<conn, rooms, centerPot, currentPlayer, gameStarted, gameState,
                   seatedCount, ghostVars>>

ResetGameB(c) ==
    /\ conn[c] = "open"
    /\ rooms # {}
    /\ players' = [s \in Seats |-> ResetPlayer(players[s])]
    /\ centerPot' = 0
    /\ currentPlayer' = 0
    /\ gameStarted' = FALSE
    /\ gameOvers' = 0
    /\ ledger' = StartChips * Cardinality(SeatedSeats(players))
    /\ graceRoundPlayers' = {}
    /\ UNCHANGED <<conn, rooms, gameState, seatedCount, pendingRoll, everFull,
                   zeroTurns>>

DisconnectB(c) ==
    /\ conn[c] = "open"
    /\ conn' = [conn EXCEPT ![c] = "closed"]
    /\ LET seat == SeatOf(players, c)
       IN  IF rooms = {} \/ seat = -1
           THEN UNCHANGED <<players, ledger>>
           ELSE IF players[seat].aged
                THEN /\ players' = [players EXCEPT ![seat].socketId = NoSocket]
                     /\ UNCHANGED ledger
                ELSE /\ players' = [players EXCEPT ![seat] = Null]
                     /\ ledger' = ledger - players[seat].chips
    /\ UNCHANGED <<rooms, centerPot, currentPlayer, gameStarted, gameState,
                   seatedCount, pendingRoll, gameOvers, everFull, zeroTurns, graceRoundPlayers>>

\* The setInterval callback: a room with no seated player is deleted.
SweepRooms ==
    /\ rooms # {}
    /\ SeatedSeats(players) = {}
    /\ rooms' = {}
    /\ players' = EmptySeats
    /\ centerPot' = 0
    /\ currentPlayer' = 0
    /\ gameStarted' = FALSE
    /\ pendingRoll' = None
    /\ gameOvers' = 0
    /\ everFull' = FALSE
    /\ ledger' = 0
    /\ zeroTurns' = {}
    /\ graceRoundPlayers' = {}
    /\ UNCHANGED <<conn, gameState, seatedCount>>

\* A further socket connects. Its id is new to the server; in the model it takes
\* the index of a closed socket, which no seat refers to any more. A server
\* that hangs in finalizeTurn accepts no connection: some socket is still open.
ConnectAgain(c) ==
    /\ conn[c] = "closed"
    /\ \E d \in Conns : conn[d] = "open"
    /\ SeatOf(players, c) = -1
    /\ conn' = [conn EXCEPT ![c] = "open"]
    /\ UNCHANGED <<rooms, roomVars, gameState, seatedCount, ghostVars>>

NextB ==
    \/ \E c \in Conns : Connect(c)
    \/ \E c \in Conns : ConnectAgain(c)
    \/ \E c \in Conns : CreateRoomB(c)
    \/ \E c \in Conns : JoinSeatB(c)
    \/ \E c \in Conns, actions \in ActionLists : ResolveWildsB(c, actions)
    \/ \E c \in Conns : ResetGameB(c)
    \/ \E c \in Conns : DisconnectB(c)
    \/ TimePasses
    \/ SweepRooms

\* The interval timer keeps firing; clients are not obliged to send anything.
SpecB == Init /\ [][NextB]_vars /\ WF_vars(SweepRooms)

\* ------------------- room codes and long wild replies, server.js 1-421
\* createRoomId draws the code at random; the room the model follows has the
\* code RoomId, a room with another code is not followed.
OtherRoomId == "OTHER"
RoomCodes == {RoomId, OtherRoomId}

\* createRoom when createRoomId returns code.
CreateRoomWith(c, code) ==
    /\ conn[c] = "open"
    /\ IF code = RoomId
       THEN /\ rooms' = {RoomId}
            /\ players' = EmptySeats
            /\ centerPot' = 0
            /\ currentPlayer' = 0
            /\ gameStarted' = FALSE
            /\ pendingRoll' = None
            /\ gameOvers' = 0
            /\ everFull' = FALSE
            /\ ledger' = 0
            /\ zeroTurns' = {}
            /\ UNCHANGED graceRoundPlayers
       ELSE UNCHANGED <<rooms, roomVars, ghostVars>>
    /\ UNCHANGED <<conn, gameState, seatedCount>>

\* resolveWilds payloads of up to MaxReplyActions actions.
LongActionLists == UNION {[1..n -> WildActions] : n \in 0..MaxReplyActions}

NextR ==
    \/ \E c \in Conns : Connect(c)
    \/ \E c \in Conns, code \in RoomCodes : CreateRoomWith(c, code)
    \/ \E c \in Conns : JoinSeat(c)
    \/ \E c \in Conns : RollDice(c)
    \/ \E c \in Conns, actions \in LongActionLists : ResolveWilds(c, actions)

SpecR == Init /\ [][NextR]_vars

\* ------------------------------------ the wildActions server, part_000 1-364
FinalizeTurnE(r, seat) ==
    LET ps0 == r.players
        ps1 == IF ps0[seat].chips <= 0
               THEN [ps0 EXCEPT ![seat].eliminated = TRUE] ELSE ps0
    IN  [r EXCEPT !.players = ps1,
                  !.currentPlayer = GetNextSeat2(ps1, seat),
                  !.gameOver = (CountPlayersWithChips(ps1) = 1)]

\* steals.forEach: from[i] is the seat named by the i-th steal.
RECURSIVE StealEachE(_, _, _, _)
StealEachE(ps, seat, from, i) ==
    IF i > Len(from) THEN ps
    ELSE StealEachE(ApplySteal(ps, seat, from[i]), seat, from, i + 1)

\* outcomes.forEach((o, i) => ...): cancels holds 0-based indices.
RECURSIVE ApplyEachE(_, _, _, _, _)
ApplyEachE(r, seat, outcomes, cancels, i) ==
    IF i > Len(outcomes) THEN r
    ELSE ApplyEachE(IF (i - 1) \in cancels THEN r
                    ELSE ApplyOutcome2(r, seat, outcomes[i]),
                    seat, outcomes, cancels, i + 1)

\* With no player in the seat, player.name throws.
ApplyWildActionsE(r, seat, outcomes, cancels, steals) ==
    IF r.players[seat] = Null THEN [r EXCEPT !.crashed = TRUE]
    ELSE LET r1 == [r EXCEPT !.players = StealEachE(r.players, seat, steals, 1)]
             r2 == ApplyEachE(r1, seat, outcomes, cancels, 1)
         IN  IF r2.crashed THEN r2 ELSE FinalizeTurnE(r2, seat)

OutcomeListsE ==
    UNION {[1..n -> {"Left", "Right", "Hub", "Wild"}] : n \in 0..MaxActions}
CancelSetsE == SUBSET (0..(MaxActions - 1))
StealListsE == UNION {[1..n -> Seats] : n \in 0..MaxActions}

CreateRoomE(c) == CreateRoom2(c)

JoinSeatE(c) ==
    /\ conn[c] = "open"
    /\ rooms # {}
    /\ Cardinality(SeatedSeats(players)) < MaxSeated
    /\ LET open == Seats \ SeatedSeats(players)
       IN  /\ open # {}
           /\ players' = [players EXCEPT ![Min(open)] = NewPlayer2(c)]
           /\ seatedCount' = seatedCount + 1
           /\ everFull' = (everFull \/ SeatedSeats(players') = Seats)
           /\ gameState' = IF seatedCount' = NumSeats THEN "playing" ELSE gameState
    /\ ledger' = ledger + StartChips
    /\ UNCHANGED <<conn, rooms, centerPot, currentPlayer, gameStarted,
                   pendingRoll, gameOvers, zeroTurns, graceRoundPlayers>>

\* socket.on("wildActions"): seat and lists are the client's.
WildActionsE(c, seat, outcomes, cancels, steals) ==
    /\ conn[c] = "open"
    /\ rooms # {}
    /\ LET r == ApplyWildActionsE(ThisRoom, seat, outcomes, cancels, steals)
       IN  /\ Commit2(r)
           /\ ledger' = IF r.crashed THEN 0 ELSE ledger
    /\ UNCHANGED gameStarted

DisconnectE(c) ==
    /\ conn[c] = "open"
    /\ conn' = [conn EXCEPT ![c] = "closed"]
    /\ LET seat == SeatOf(players, c)
       IN  IF rooms = {} \/ seat = -1
           THEN UNCHANGED <<players, ledger>>
           ELSE /\ players' = [players EXCEPT ![seat] = Null]
                /\ ledger' = ledger - players[seat].chips
    /\ UNCHANGED <<rooms, centerPot, currentPlayer, gameStarted, gameState,
                   seatedCount, pendingRoll, gameOvers, everFull, zeroTurns, graceRoundPlayers>>

NextE ==
    \/ \E c \in Conns : Connect(c)
    \/ \E c \in Conns : CreateRoomE(c)
    \/ \E c \in Conns : JoinSeatE(c)
    \/ \E c \in Conns, seat \in Seats, outcomes \in OutcomeListsE,
          cancels \in CancelSetsE, steals \in StealListsE :
          WildActionsE(c, seat, outcomes, cancels, steals)
    \/ \E c \in Conns : DisconnectE(c)

SpecE == Init /\ [][NextE]_vars

\* ------------------------------------- part_002: rollDice and grace round
ApplyOutcomeB(r, seat, o) ==
    LET ps == r.players
    IN  IF o = "Left" /\ ps[seat].chips > 0
        THEN LET leftSeat == GetNextSeat2(ps, seat)
                 ps1 == [ps EXCEPT ![seat].chips = @ - 1]
             IN  [r EXCEPT !.players = [ps1 EXCEPT ![leftSeat].chips = @ + 1]]
        ELSE IF o = "Right" /\ ps[seat].chips > 0
        THEN LET rightSeat == GetNextSeat2(ps, seat + 2)
                 ps1 == [ps EXCEPT ![seat].chips = @ - 1]
             IN  [r EXCEPT !.players = [ps1 EXCEPT ![rightSeat].chips = @ + 1]]
        ELSE IF o = "Hub" /\ ps[seat].chips > 0
        THEN [r EXCEPT !.players = [ps EXCEPT ![seat].chips = @ - 1],
                       !.centerPot = @ + 1]
        ELSE r

RECURSIVE ApplyEachB(_, _, _, _)
ApplyEachB(r, seat, outcomes, i) ==
    IF i > Len(outcomes) THEN r
    ELSE ApplyEachB(ApplyOutcomeB(r, seat, outcomes[i]), seat, outcomes, i + 1)

\* The room as applyOutcomes hands it to finalizeTurn.
AppliedB(r, seat, outcomes) == ApplyEachB(r, seat, outcomes, 1)

\* handleZeroChipsOnTurn for a player with 0 chips while n players hold
\* chips, n # 1: the players, the grace keys and the current seat it leaves.
ZeroChipsPlayers(seat, n) ==
    IF n = 0 THEN players
    ELSE IF seat \notin graceRoundPlayers
    THEN [players EXCEPT ![seat].danger = TRUE]
    ELSE [players EXCEPT ![seat].eliminated = TRUE]

ZeroChipsGrace(seat, n) ==
    IF n = 0 THEN graceRoundPlayers
    ELSE IF seat \notin graceRoundPlayers
    THEN graceRoundPlayers \cup {seat}
    ELSE graceRoundPlayers \ {seat}

\* rollDice of a player with 0 chips: handleZeroChipsOnTurn, and unless it
\* reports the game ended, a roll of no dice that applyOutcomes finalizes.
ZeroChipsTurnB(seat) ==
    LET n == CountPlayersWithChips(players)
    IN  IF n = 1
        THEN /\ gameOvers' = BumpGameOvers(gameOvers)
             /\ UNCHANGED <<conn, players, centerPot, currentPlayer, gameStarted,
                            graceRoundPlayers>>
        ELSE LET ps1 == ZeroChipsPlayers(seat, n)
                 r   == FinalizeTurnB(Room(ps1, centerPot, GetNextSeat2(ps1, seat)),
                                      seat)
             IN  /\ Commit(r)
                 /\ graceRoundPlayers' = ZeroChipsGrace(seat, n)
                 /\ gameStarted' = TRUE
                 /\ IF r.crashed THEN Hang ELSE UNCHANGED conn

RollB(seat, outcomes) ==
    /\ gameStarted' = TRUE
    /\ IF WildCount(outcomes) > 0
       THEN UNCHANGED <<conn, players, centerPot, currentPlayer, gameOvers,
                        graceRoundPlayers>>
       ELSE LET r0 == AppliedB(ThisRoom, seat, outcomes)
                r  == FinalizeTurnB(r0, seat)
            IN  /\ Commit(r)
                /\ graceRoundPlayers' = Recovered(graceRoundPlayers, r0.players, seat)
                /\ IF r.crashed THEN Hang ELSE UNCHANGED conn

\* The faces the dice show in this model: a die passes a chip to the left,
\* keeps it, or asks for a wild choice.
FacesG == {"Left", "Dottt", "Wild"}

RollsG(n) == [1..n -> FacesG]

RollDiceB(c) ==
    /\ conn[c] = "open"
    /\ rooms # {}
    /\ SeatOf(players, c) # -1
    /\ SeatOf(players, c) = currentPlayer
    /\ ~players[currentPlayer].eliminated
    /\ TotalChips(players) + centerPot <= MaxChips
    /\ IF players[currentPlayer].chips = 0
       THEN ZeroChipsTurnB(currentPlayer)
       ELSE \E outcomes \in RollsG(NumDice(players[currentPlayer].chips)) :
                RollB(currentPlayer, outcomes)
    /\ UNCHANGED <<rooms, gameState, seatedCount, pendingRoll, everFull,
                   zeroTurns, ledger>>

NextG ==
    \/ \E c \in Conns : Connect(c)
    \/ \E c \in Conns : ConnectAgain(c)
    \/ \E c \in Conns : CreateRoomB(c)
    \/ \E c \in Conns : JoinSeatB(c)
    \/ \E c \in Conns : RollDiceB(c)
    \/ \E c \in Conns, actions \in ActionLists : ResolveWildsB(c, actions)
    \/ \E c \in Conns : DisconnectB(c)
    \/ TimePasses

SpecG == Init /\ [][NextG]_vars

\* ------------------------------------------------ getNextSeat on its own
\* Every occupancy of the four seats (empty, playing, eliminated) with every
\* seat as the one whose turn ends; the turn is passed as finalizeTurn does.
EliminatedPlayer(c) ==
    [socketId |-> c, chips |-> 0, eliminated |-> TRUE, danger |-> TRUE]

InitN ==
    /\ conn = [c \in Conns |-> "open"]
    /\ rooms = {RoomId}
    /\ players \in [Seats -> {Null, NewPlayer(1), EliminatedPlayer(1)}]
    /\ centerPot = 0
    /\ currentPlayer \in Seats
    /\ gameStarted = TRUE
    /\ gameState = "waiting"
    /\ seatedCount = 0
    /\ pendingRoll = None
    /\ gameOvers = 0
    /\ everFull = FALSE
    /\ zeroTurns = {}
    /\ graceRoundPlayers = {}
    /\ ledger = 0

PassTurn ==
    /\ currentPlayer' = GetNextSeat(players, currentPlayer)
    /\ UNCHANGED <<conn, rooms, players, centerPot, gameStarted, gameState,
                   seatedCount, pendingRoll, gameOvers, everFull, zeroTurns, graceRoundPlayers,
                   ledger>>

NextN == PassTurn

SpecN == InitN /\ [][NextN]_vars

\* ================================================================ claims
\* sum(chips of all seats) + centerPot
Total == TotalChips(players) + centerPot

HasPendingRoll(c) == SeatOf(players, c) # -1 /\ pendingRoll.seat = SeatOf(players, c)

\* C2: a resolveWilds from a connection whose seat has no pending roll moves
\* no chips, changes no danger/eliminated flag and does not advance the turn.
C2_ResolveWildsNeedsPendingRoll ==
    [][\A c \in Conns, actions \in ActionLists :
          (ResolveWilds(c, actions) /\ ~HasPendingRoll(c))
          => UNCHANGED <<players, centerPot, currentPlayer>>]_vars

\* C3: while a roll with Wild faces awaits the roller's decision, a further
\* rollDice changes no chips, no pot, no flag and no turn.
C3_NoRollWhilePending ==
    [][((pendingRoll # None) /\ (\E c \in Conns : RollDice(c)))
       => UNCHANGED <<players, centerPot, currentPlayer>>]_vars

\* C4: a tripleWildChoice from a connection whose seat has no pending roll with
\* exactly three Wilds moves no chips, leaves centerPot unchanged and does
\* not finalize a turn.
C4_TripleWildNeedsThreeWilds ==
    [][\A c \in Conns, choice \in Choices :
          (TripleWildChoice(c, choice)
           /\ ~(HasPendingRoll(c) /\ pendingRoll.wilds = MaxDice))
          => UNCHANGED <<players, centerPot, currentPlayer, gameOvers>>]_vars

\* C5: once a turn has finalized with exactly one seat holding chips (gameOver
\* was emitted), every rollDice changes nothing until resetGame.
C5_NoRollAfterGameOver ==
    [][((gameOvers > 0) /\ (\E c \in Conns : RollDice(c)))
       => UNCHANGED <<players, centerPot, currentPlayer>>]_vars

\* C6: between room creation / resetGame and the next resetGame, gameOver is
\* emitted at most once.
C6_GameOverOnce == gameOvers <= 1

\* C7: the step that emits gameOver hands the pot to the winner: afterwards
\* centerPot is 0 and the seats hold the chips they held plus the pot.
C7_WinnerTakesPot ==
    [][(gameOvers' = gameOvers + 1)
       => (centerPot' = 0 /\ TotalChips(players') = Total)]_vars

\* C8: a turn that starts with 0 chips and danger false sets danger and does
\* not eliminate; no player is eliminated on the first such turn; when the
\* player's previous turn also started with 0 chips and danger is still true,
\* the player is eliminated.
C8_TwoStageElimination ==
    [][\A c \in Conns :
          (RollDice(c) /\ players[currentPlayer].chips = 0)
          => /\ ~players[currentPlayer].danger
                   => (players'[currentPlayer].danger
                       /\ ~players'[currentPlayer].eliminated)
             /\ currentPlayer \notin zeroTurns
                   => ~players'[currentPlayer].eliminated
             /\ (currentPlayer \in zeroTurns /\ players[currentPlayer].danger)
                   => players'[currentPlayer].eliminated]_vars

\* C9: a rollDice from a connection that is not seated, is not seated at
\* currentPlayer, or whose player is eliminated changes no chips, no pot, no
\* flag and no turn.
C9_RollOnlyByCurrentPlayer ==
    [][\A c \in Conns :
          (RollDiceC(c)
           /\ (\/ SeatOf(players, c) = -1
               \/ SeatOf(players, c) # currentPlayer
               \/ players[SeatOf(players, c)].eliminated))
          => UNCHANGED <<players, centerPot, currentPlayer>>]_vars

\* C10: in a room whose four seats have never all been filled, a rollDice from
\* the player in seat 0 draws no dice and changes no room state.
C10_NoRollWhileWaiting ==
    [][\A c \in Conns :
          (RollDice(c) /\ ~everFull /\ SeatOf(players, c) = 0)
          => UNCHANGED <<players, centerPot, currentPlayer, gameStarted,
                         pendingRoll>>]_vars

\* C11: when resolveWilds completes a pending roll with one or two Wild faces,
\* every non-Wild outcome of that roll that was not cancelled is applied; in
\* particular, answered with no cancel and no steal, each Hub face of the
\* roll moves one chip of the roller to the centre pot.
C11_UncancelledOutcomesApplied ==
    [][\A c \in Conns :
          (ResolveWilds(c, <<>>) /\ HasPendingRoll(c)
             /\ pendingRoll.wilds \in 1..(MaxDice - 1))
          => /\ centerPot' = centerPot + pendingRoll.hubs
             /\ players'[pendingRoll.seat].chips
                  <= players[pendingRoll.seat].chips - pendingRoll.hubs]_vars

\* Faces of a roll that move a chip (server.js 312-327).
MovingFaces(outcomes) ==
    Cardinality({i \in 1..Len(outcomes) : outcomes[i] \in {"Left", "Right", "Hub"}})

LeftCount(outcomes) ==
    Cardinality({i \in 1..Len(outcomes) : outcomes[i] = "Left"})

\* C12: a roll with no Wild face is applied inside rollDice: with another
\* active seat in the room, each Left, Right and Hub face moves exactly one
\* chip away from the roller (the roller holds at least as many chips as dice),
\* each Hub chip goes to the pot and each Left chip to the next active seat
\* clockwise.
C12_NoWildRollApplied ==
    [][\A c \in Conns, n \in 1..MaxDice : \A outcomes \in Rolls(n) :
          (RollDiceWith(c, outcomes) /\ WildCount(outcomes) = 0
             /\ \E s \in Seats \ {SeatOf(players, c)} : Probe(players, s))
          => LET seat == SeatOf(players, c)
                 left == GetNextSeat(players, seat)
             IN  /\ players'[seat].chips
                      = players[seat].chips - MovingFaces(outcomes)
                 /\ centerPot' = centerPot + HubCount(outcomes)
                 /\ players'[left].chips
                      >= players[left].chips + LeftCount(outcomes)]_vars

\* C13: tripleWildChoice with choice steal3, answering a roll of three Wild
\* faces, takes at most 1 chip from any single other seat and at most 3 chips
\* in total.
C13_Steal3OnePerSeat ==
    [][\A c \in Conns :
          (TripleWildChoice(c, "steal3") /\ HasPendingRoll(c)
             /\ pendingRoll.wilds = MaxDice)
          => LET seat == SeatOf(players, c)
             IN  /\ \A s \in Seats \ {seat} :
                       players[s] # Null
                       => players'[s].chips >= players[s].chips - 1
                 /\ players'[seat].chips <= players[seat].chips + StealCount]_vars

\* C14: getNextSeat returns after at most 4 probes for every room state and
\* starting seat, and its result is an occupied, non-eliminated seat unless
\* every seat other than the starting one is empty or eliminated.
C14_NextSeatIsActive ==
    LET next == GetNextSeat(players, currentPlayer)
    IN  /\ NextSeatProbes(players, currentPlayer) <= NumSeats
        /\ next \in Seats
        /\ \/ Probe(players, next)
           \/ \A s \in Seats \ {currentPlayer} : ~Probe(players, s)

\* The turn was passed over an eliminated seat to a playing one.
C14_Witness ==
    \E s \in Seats :
        /\ Occupied(players, s) /\ players[s].eliminated
        /\ currentPlayer = JsMod(s + 1, 4)
        /\ Probe(players, currentPlayer)
        /\ Probe(players, JsMod(s + 3, 4))
        /\ GetNextSeat(players, JsMod(s + 3, 4)) = currentPlayer

\* C15: in every reachable state an eliminated player holds 0 chips (so no
\* transfer, steal, steal3 or takePot has raised the chips of an eliminated
\* player).
C15_EliminatedHoldsNoChips ==
    \A s \in Seats :
        (players[s] # Null /\ players[s].eliminated) => players[s].chips = 0

\* C16: once a seated player's eliminated flag is true, no step other than
\* resetGame sets it back to false while the player stays seated.
C16_EliminationMonotonic ==
    [][\A s \in Seats :
          (players[s] # Null /\ players[s].eliminated /\ players'[s] # Null)
          => (players'[s].eliminated \/ \E c \in Conns : ResetGame(c))]_vars

\* An eliminated player was handed chips by a later command and is still
\* eliminated.
C16_Witness ==
    \E s \in Seats :
        players[s] # Null /\ players[s].eliminated /\ players[s].chips > 0

\* C17: a joinSeat from a connection that already holds a seat of the room
\* leaves all four seats unchanged.
C17_OneSeatPerConnection ==
    [][\A c \in Conns :
          (JoinSeat(c) /\ SeatOf(players, c) # -1) => UNCHANGED players]_vars

\* C19: a transport disconnect of a seated connection does not empty the
\* seat: the player stays seated with chips, danger and eliminated unchanged.
C19_DisconnectKeepsSeat ==
    [][\A c \in Conns :
          Disconnect(c)
          => \A s \in Seats :
                (players[s] # Null /\ players[s].socketId = c)
                => /\ players'[s] # Null
                   /\ players'[s].chips = players[s].chips
                   /\ players'[s].danger = players[s].danger
                   /\ players'[s].eliminated = players[s].eliminated]_vars

C20_DetachedSeatResolved ==
    \A s \in Seats :
        Detached(players, s)
        ~> (players[s] = Null \/ players[s].socketId # NoSocket)

\* C21: the disconnect of a connection that occupies no seat is a no-op: the
\* room, also one with zero seated players, exists afterwards with the state
\* it had before.
C21_UnseatedDisconnectIsNoOp ==
    [][\A c \in Conns :
          (Disconnect(c) /\ SeatOf(players, c) = -1)
          => UNCHANGED <<rooms, players, centerPot, currentPlayer,
                         gameStarted>>]_vars

\* C22: creating a room never replaces or resets the seats, chips, pot or
\* turn of a room that already exists.
C22_CreateRoomKeepsLiveRooms ==
    [][\A c \in Conns, code \in RoomCodes :
          (CreateRoomWith(c, code) /\ rooms # {})
          => UNCHANGED <<players, centerPot, currentPlayer, gameStarted>>]_vars

\* Chips held by the seats other than seat.
ChipsOfOthers(ps, seat) == TotalChips(ps) - ps[seat].chips

\* C23: the chips stolen by a single resolveWilds never exceed the number of
\* Wild faces of the pending roll (one or two); actions beyond the Wild count
\* are ignored.
C23_OneActionPerWild ==
    [][\A c \in Conns, actions \in LongActionLists :
          (ResolveWilds(c, actions) /\ HasPendingRoll(c)
             /\ pendingRoll.wilds \in 1..(MaxDice - 1))
          => ChipsOfOthers(players, pendingRoll.seat)
                - ChipsOfOthers(players', pendingRoll.seat)
             <= pendingRoll.wilds]_vars

\* The target of a steal is an empty seat or holds no chip.
WastedSteal(a) ==
    /\ a.type = "steal"
    /\ (players[a.from] = Null \/ players[a.from].chips = 0)

\* C24: a steal that targets a seat with 0 chips or an empty seat takes no
\* chip and still uses up its Wild: answering a roll with one Wild face, no
\* action that follows it in the reply takes a chip from any seat.
C24_WastedStealConsumesWild ==
    [][\A c \in Conns, actions \in LongActionLists :
          (ResolveWilds(c, actions) /\ HasPendingRoll(c)
             /\ pendingRoll.wilds = 1
             /\ Len(actions) = 2 /\ WastedSteal(actions[1]))
          => \A s \in Seats \ {pendingRoll.seat} :
                players[s] # Null => players'[s].chips >= players[s].chips]_vars

\* C25: a wild resolution applies the roll the server drew for the seat whose
\* turn it is: a wildActions message that names another seat causes no
\* transfer, no steal and no change of turn.
C25_OnlyServerRollResolved ==
    [][\A c \in Conns, seat \in Seats, outcomes \in OutcomeListsE,
          cancels \in CancelSetsE, steals \in StealListsE :
          (WildActionsE(c, seat, outcomes, cancels, steals)
             /\ seat # currentPlayer /\ players[seat] # Null)
          => UNCHANGED <<rooms, players, centerPot, currentPlayer>>]_vars

\* C29: in every reachable state of a room, seatedCount equals the number of
\* non-empty seats.
C29_SeatedCountIsOccupancy ==
    (rooms # {}) => (seatedCount = Cardinality(SeatedSeats(players)))

\* C26: a Right face moves exactly one chip from the roller to another seat:
\* when another non-eliminated player is seated, a roll of Right and Dot faces
\* only leaves the roller, whatever seat it holds, with one chip less per Right
\* face.
C26_RightLeavesRoller ==
    [][\A c \in Conns, n \in 1..MaxDice : \A outcomes \in Rolls(n) :
          (RollDiceWith(c, outcomes)
             /\ \A i \in 1..n : outcomes[i] \in {"Right", "Dottt"}
             /\ CountFace(outcomes, "Right") > 0
             /\ \E s \in Seats \ {SeatOf(players, c)} : Probe(players, s))
          => players'[SeatOf(players, c)].chips
                = players[SeatOf(players, c)].chips - CountFace(outcomes, "Right")]_vars

\* C27: the Dot gain of a roll is min(dotCount, 3 - chips), clamped at 0: when
\* the roll holds a Wild face, so that nothing but the Dot gain is applied
\* before the wild decision, the roller ends rollDice with that many more
\* chips, and never with fewer chips than before.
C27_DotGainClamped ==
    [][\A c \in Conns, rollResults \in Rolls(MaxDice) :
          (WildCount(rollResults) > 0
             /\ rooms # {} /\ players[currentPlayer] # Null
             /\ Roll2With("Dottt", rollResults) /\ RollDiceD(c))
          => LET chips == players[currentPlayer].chips
                 room  == DotCap - chips
                 dots  == CountFace(rollResults, "Dottt")
                 gain  == IF room <= 0 THEN 0 ELSE IF dots < room THEN dots ELSE room
             IN  players'[currentPlayer].chips = chips + gain]_vars

\* C28: when some seat is empty, joinSeat puts the new player in the
\* lowest-index empty seat, with 3 chips, not eliminated and not in danger; a
\* vacated seat 0 is refilled while other seats are occupied.
C28_JoinTakesLowestEmptySeat ==
    [][\A c \in Conns :
          JoinSeatB(c)
          => LET seat == Min(Seats \ SeatedSeats(players))
             IN  /\ players'[seat] # Null
                 /\ players'[seat].socketId = c
                 /\ players'[seat].chips = StartChips
                 /\ ~players'[seat].eliminated
                 /\ ~players'[seat].danger]_vars

\* C30: when resolveWilds finalizes the turn and at least two players still
\* hold chips (no winner), the turn passes to the first occupied,
\* non-eliminated seat clockwise from the acting seat, whether or not that seat
\* holds chips.
C30_TurnPassesToNextActiveSeat ==
    [][\A c \in Conns, actions \in ActionLists :
          (ResolveWildsB(c, actions) /\ CountPlayersWithChips(players') >= 2)
          => currentPlayer' = GetNextSeat2(players', SeatOf(players, c))]_vars

\* C31: the periodic sweep never removes a room that still has a connected
\* client in it: while only one socket has ever connected and it is still
\* open, the existing room is the one it created and is in, and the sweep
\* does not delete that room.
C31_SweepKeepsRoomWithClient ==
    [][(SweepRooms
          /\ \E c \in Conns : /\ conn[c] = "open"
                              /\ \A d \in Conns \ {c} : conn[d] = "new")
       => rooms' # {}]_vars

\* C32: when rollDice, resolveWilds or tripleWildChoice finalizes a turn and
\* no seat holds a chip afterwards, no winner is declared: no gameOver is
\* emitted.
C32_NoWinnerWithoutChips ==
    [][(/\ rooms # {} /\ rooms' # {}
        /\ CountPlayersWithChips(players') = 0
        /\ \/ \E c \in Conns : RollDiceC(c)
           \/ \E c \in Conns, actions \in Payloads2 : ResolveWilds2(c, actions)
           \/ \E c \in Conns, choice \in Choices : TripleWildChoice2(c, choice))
       => gameOvers' = gameOvers]_vars

\* C33: in every reachable state every seated player's chips and the room's
\* centerPot are integers >= 0.
C33_ChipsNeverNegative ==
    /\ centerPot \in Nat
    /\ \A s \in Seats : players[s] # Null => players[s].chips \in Nat

\* A seat has been emptied of chips while another seat holds more than its
\* starting chips and the pot holds a chip: transfers, steals and Hub faces
\* have all acted.
C33_Witness ==
    /\ centerPot > 0
    /\ \E s, t \in Seats :
          /\ players[s] # Null /\ players[s].chips = 0
          /\ players[t] # Null /\ players[t].chips > StartChips

\* C34: no seated player is ever both eliminated and in danger.
C34_NeverEliminatedAndInDanger ==
    \A s \in Seats :
        players[s] # Null => ~(players[s].eliminated /\ players[s].danger)

\* C35: whenever at least two seated players hold chips and no roll is
\* pending, the current seat is occupied, not eliminated and has a connection
\* attached, so that its rollDice is accepted.
C35_CurrentSeatCanPlay ==
    (rooms # {} /\ CountPlayersWithChips(players) >= 2 /\ pendingRoll = None)
    => /\ Probe(players, currentPlayer)
       /\ ~Detached(players, currentPlayer)

\* C36: finalizeTurn always terminates: every resolveWilds the server takes up
\* returns, and the server goes on serving the socket that sent it, also when
\* no seated player holds a chip.
C36_FinalizeTurnReturns ==
    [][\A c \in Conns, actions \in ActionLists :
          ResolveWildsB(c, actions)
          => (conn'[c] = "open" /\ currentPlayer' \in Seats)]_vars

\* C37: resetGame discards any roll awaiting a wild decision: a resolveWilds
\* that answers a request issued before the last resetGame (a request is
\* outstanding although no roll has been drawn since the reset) moves no
\* chips, changes no danger/eliminated flag and does not advance the turn.
C37_ResetDiscardsPendingRoll ==
    [][\A c \in Conns, actions \in ActionLists :
          (ResolveWilds(c, actions) /\ HasPendingRoll(c) /\ ~gameStarted)
          => UNCHANGED <<players, centerPot, currentPlayer>>]_vars

\* C38: a joinSeat processed while the game is in progress, refilling a
\* vacated seat, leaves the current seat, the pot and every other player's
\* chips and flags unchanged.
C38_JoinMidGameKeepsTurn ==
    [][\A c \in Conns :
          (JoinAnySeat2(c) /\ gameState = "playing")
          => /\ UNCHANGED <<currentPlayer, centerPot>>
             /\ \A s \in Seats : players[s] # Null => players'[s] = players[s]]_vars

\* C39: a newly seated player starts with a clean danger state: a zero-chip
\* turn of a player who is not in danger only sets danger and never
\* eliminates the player, whatever happened to an earlier occupant of the
\* seat.
C39_FirstZeroTurnOnlyDanger ==
    [][\A c \in Conns :
          (RollDiceB(c) /\ players[currentPlayer].chips = 0
             /\ ~players[currentPlayer].danger
             /\ CountPlayersWithChips(players) >= 2)
          => /\ players'[currentPlayer].danger
             /\ ~players'[currentPlayer].eliminated]_vars

====
